---- MODULE Spec2Model ----
(***************************************************************************)
(* The card sequencer of Finitude (src/src/Finitude.js): the React state   *)
(* of the component, its two interval timers and its event handlers.       *)
(*                                                                         *)
(* One action is one handler together with the re-render it causes and     *)
(* the effects React runs after that render (cleanup of the autoplay       *)
(* effect, then its body, when one of its dependencies changed).           *)
(*                                                                         *)
(* Time is counted in periods of the progress interval (50 ms): cardDue    *)
(* and progDue are the periods left until the card-rotation interval and   *)
(* the progress interval are due.                                          *)
(***************************************************************************)
EXTENDS Integers, Sequences, FiniteSets

VARIABLES
    lifecycle,        \* "mounted" | "unmounted" | "crashed" (render threw)
    loaded,           \* the mount effect (load useEffect) has run
    currentCard,      \* useState(0)
    isAutoPlaying,    \* useState(true)
    progress,         \* useState(0)
    touchStart,       \* useState(null): <<>> is null, <<x>> is clientX x
    touchEnd,         \* useState(null)
    currentView,      \* useState('main')
    activities,       \* useState([]): the sequence of activity ids
    editingActivity,  \* useState(null): <<>> is null, <<id>> the activity
    tickInterval,     \* userSettings?.display?.tick_interval_seconds || 5
    intervalRef,      \* useRef(null): "null" | "live" | "cleared"
    progressRef,      \* useRef(null): "null" | "live" | "cleared"
    cardTimers,       \* number of live card-rotation intervals
    progTimers,       \* number of live progress intervals
    cardDue,          \* 50 ms periods until the card-rotation interval is due
    progDue,          \* 50 ms periods until the progress interval is due
    navStart,         \* history: the focus index when a run of nextCard calls began
    navCount,         \* history: the nextCard calls of that run so far
    userProfile,      \* useState(null): <<>> is null, <<p>> the profile p
    today,            \* new Date(): [year, month], month in 1..12
    calcIn,           \* arguments of a call of the calculation utilities
    calcOut,          \* what the call returned: <<>> before the call
    savedProfile,     \* last argument of saveUserProfile since the mount:
                      \* <<>> before the first call, <<p>> the profile p
    savedActivities   \* last argument of saveUserActivities since the
                      \* mount: <<>> before the first call, <<acts>> the list

vars == <<lifecycle, loaded, currentCard, isAutoPlaying, progress, touchStart,
          touchEnd, currentView, activities, editingActivity, tickInterval,
          intervalRef, progressRef, cardTimers, progTimers, cardDue, progDue,
          navStart, navCount, userProfile, today, calcIn, calcOut,
          savedProfile, savedActivities>>

\* the history variables, which no handler reads or writes
hist == <<navStart, navCount>>

\* the state values and refs of the component
componentVars ==
    <<lifecycle, loaded, currentCard, isAutoPlaying, progress, touchStart,
      touchEnd, currentView, activities, editingActivity, tickInterval,
      intervalRef, progressRef, cardTimers, progTimers, cardDue, progDue>>

\* the profile and the calendar
profileVars == <<userProfile, today>>

\* the call of the calculation utilities, which the component never makes
calcVars == <<calcIn, calcOut>>

\* what the handlers handed to saveUserProfile and saveUserActivities
savedVars == <<savedProfile, savedActivities>>

----------------------------------------------------------------------------
(* Bounds of the model *)

\* the largest number of default activities the load effect receives
MaxLoad == 2
\* handleAddActivity is explored while the list is shorter than this
MaxActivities == 2

(* Program constants *)

DefaultTickInterval == 5
ProgressPeriodMs == 50
ProgressFull == 100
SwipeThreshold == 50
MsPerSecond == 1000

Null == <<>>
Some(x) == <<x>>
\* JavaScript truthiness of a number-or-null state value: null and 0 are falsy
Truthy(v) == v # Null /\ v[1] # 0

\* the clientX values a touch is drawn from
Coords == {0, 1, SwipeThreshold + 1, SwipeThreshold + 2}
\* tick_interval_seconds of the loaded settings: a dwell of 20 progress
\* periods (the dwells of 5 s and more are those of DwellChoices)
TickChoices == {1}

----------------------------------------------------------------------------
(* The profile.  Ages are whole years; the life expectancy moves in steps  *)
(* of half a year (the lifespan slider's step), so it is held in           *)
(* half-years: 157 is 78.5 years.                                          *)

\* userProfile?.life_expectancy?.years || 78.5, in half-years
DefaultLifeHalfYears == 157
\* userProfile?.demographics?.age || 57
DefaultAge == 57

\* the date the runs take place on
Today == [year |-> 2025, month |-> 6]

\* the profile loadUserProfile returns: the age and the life expectancy the
\* component itself falls back to
LoadedProfile ==
    [name |-> "",
     age |-> DefaultAge,
     birth_year |-> Today.year - DefaultAge,
     birth_month |-> Today.month,
     lifeHalfYears |-> DefaultLifeHalfYears]

\* the range sliders of the lifespan screen: the age in years (step 1), the
\* life expectancy in years (step 0.5)
AgeSliderMin == 18
AgeSliderMax == 90
LifespanSliderMin == 60
LifespanSliderMax == 100

AgeSlider == AgeSliderMin..AgeSliderMax
\* in half-years
LifespanSlider == (2 * LifespanSliderMin)..(2 * LifespanSliderMax)

\* the yearly frequencies of the cards: 1 is what handleAddActivity gives
CardFrequencies == {1, 12, 52}

----------------------------------------------------------------------------
(* Derived values of a render *)

\* userProfile?.life_expectancy?.years || 78.5, in half-years
LifeExpectancy ==
    IF userProfile # Null /\ userProfile[1].lifeHalfYears # 0
    THEN userProfile[1].lifeHalfYears ELSE DefaultLifeHalfYears

\* userProfile?.demographics?.age || 57
CurrentAge ==
    IF userProfile # Null /\ userProfile[1].age # 0
    THEN userProfile[1].age ELSE DefaultAge

\* mutant: the years remaining are those of the profile as loaded
YearsRemaining_AtLoad ==
    LoadedProfile.lifeHalfYears - 2 * LoadedProfile.age

\* lifeExpectancy - currentAge, in half-years
YearsRemaining == LifeExpectancy - 2 * CurrentAge

\* count: Math.floor(activity.frequency * yearsRemaining)
CardCount(frequency) == (frequency * YearsRemaining) \div 2

\* the ids of cardsWithCounts = activities.map(activity => ({...activity,
\* count})), computed anew in every render
CardIds == [i \in 1..Len(activities) |-> activities[i]]

\* cardsWithCounts.length
NumCards == Len(activities)

\* periods of the progress interval in one dwell of the card-rotation
\* interval: (tickInterval * 1000) / 50
TicksPerDwell(t) == (t * MsPerSecond) \div ProgressPeriodMs

\* mutant: no early return for an empty card list
Screen_NoEmptyReturn ==
    IF lifecycle # "mounted" THEN "none"
    ELSE IF editingActivity # Null THEN "modal"
    ELSE currentView

\* what the component returns: the loading screen while there are no cards,
\* otherwise the current view (with the edit modal on top when one is open)
Screen ==
    IF lifecycle # "mounted" THEN "none"
    ELSE IF NumCards = 0 THEN "loading"
    ELSE IF editingActivity # Null THEN "modal"
    ELSE currentView

\* the render dereferences cardsWithCounts[currentCard] in the main view
RenderThrows(view, card, n) == n > 0 /\ view = "main" /\ card >= n

----------------------------------------------------------------------------
(* The updaters and decisions of the handlers *)

\* mutant: the index is clamped at the last card instead of wrapping
NextCardIndex_NoWrap(prev, n) == IF n > 0 /\ prev + 1 < n THEN prev + 1 ELSE prev

\* nextCard: prev => (prev + 1) % cardsWithCounts.length, guarded by length > 0
NextCardIndex(prev, n) == IF n > 0 THEN (prev + 1) % n ELSE prev

\* prevCard: prev => (prev - 1 + length) % length, guarded by length > 0
PrevCardIndex(prev, n) == IF n > 0 THEN (prev - 1 + n) % n ELSE prev

\* mutant: the progress interval's updater never wraps
ProgressStep_NoWrap(prev) == prev + 1

\* the progress interval's updater
ProgressStep(prev) == IF prev >= ProgressFull THEN 0 ELSE prev + 1

\* handleTouchEnd: which advance a finished touch asks for
SwipeDecision(ts, te) ==
    IF ~Truthy(ts) \/ ~Truthy(te) THEN "none"
    ELSE LET distance == ts[1] - te[1]
         IN  IF distance > SwipeThreshold THEN "next"
             ELSE IF distance < -SwipeThreshold THEN "prev"
             ELSE "none"

\* mutant: a tap always pauses
ToggledPlaying_AlwaysPause(p) == FALSE

\* handleCardClick and the Play/Pause button: setIsAutoPlaying(!isAutoPlaying)
ToggledPlaying(p) == ~p

\* mutant: the save call is left out
Persisted_Dropped(updated, stored) == stored

\* saveUserProfile(updated) / saveUserActivities(updated) right after the
\* setter: what was handed over last is the updated value
Persisted(updated, stored) == Some(updated)

\* Math.max
Max(a, b) == IF a >= b THEN a ELSE b

\* mutant: every added activity gets the same id
NewId_Constant(acts) == MaxLoad + 1

\* id: Date.now() of handleAddActivity.  Time has moved on since every
\* earlier add and is far beyond the default ids 1..n, so the id is one no
\* activity of the list has; it stands here as the least such number above
\* the default ids
NewId(acts) ==
    CHOOSE id \in (MaxLoad + 1)..(MaxLoad + Len(acts) + 1) :
        /\ \A i \in 1..Len(acts) : acts[i] # id
        /\ \A smaller \in (MaxLoad + 1)..(id - 1) :
              \E i \in 1..Len(acts) : acts[i] = smaller

\* activities.filter(act => act.id !== activityId)
RECURSIVE FilterOut(_, _)
FilterOut(acts, id) ==
    IF acts = <<>> THEN <<>>
    ELSE IF Head(acts) = id THEN FilterOut(Tail(acts), id)
    ELSE <<Head(acts)>> \o FilterOut(Tail(acts), id)

\* the orders [...activitiesToSet].sort(() => Math.random() - 0.5) can give
\* to the ids 1..n of convertActivitiesToLegacyFormat
Shuffles(n) ==
    {s \in [1..n -> 1..n] : \A i, j \in 1..n : i # j => s[i] # s[j]}

----------------------------------------------------------------------------
(* Timers *)

\* if (ref.current) clearInterval(ref.current): the ref keeps the stale id
ClearedRef(ref) == IF ref = "live" THEN "cleared" ELSE ref

\* mutant: clearInterval cancels nothing (the id it is given is not the
\* armed interval's)
ClearedCount_Noop(ref, count) == count

ClearedCount(ref, count) == IF ref = "live" THEN count - 1 ELSE count

\* mutant: stopAutoPlay forgets the progress interval
StopAutoPlay_KeepsProgress(t) ==
    [intervalRef |-> ClearedRef(t.intervalRef),
     progressRef |-> t.progressRef,
     cardTimers  |-> ClearedCount(t.intervalRef, t.cardTimers),
     progTimers  |-> t.progTimers,
     cardDue     |-> 0,
     progDue     |-> t.progDue]

\* the timer fields after stopAutoPlay, as a record
StopAutoPlay(t) ==
    [intervalRef |-> ClearedRef(t.intervalRef),
     progressRef |-> ClearedRef(t.progressRef),
     cardTimers  |-> ClearedCount(t.intervalRef, t.cardTimers),
     progTimers  |-> ClearedCount(t.progressRef, t.progTimers),
     cardDue     |-> 0,
     progDue     |-> 0]

\* mutant: startAutoPlay arms the card interval only
StartAutoPlay_NoProgressTimer(t, tick) ==
    [intervalRef |-> "live",
     progressRef |-> ClearedRef(t.progressRef),
     cardTimers  |-> ClearedCount(t.intervalRef, t.cardTimers) + 1,
     progTimers  |-> ClearedCount(t.progressRef, t.progTimers),
     cardDue     |-> TicksPerDwell(tick),
     progDue     |-> 0]

\* the timer fields after startAutoPlay: clear what the refs hold, then arm
\* the progress interval (50 ms) and the card interval (tickInterval * 1000)
StartAutoPlay(t, tick) ==
    [intervalRef |-> "live",
     progressRef |-> "live",
     cardTimers  |-> ClearedCount(t.intervalRef, t.cardTimers) + 1,
     progTimers  |-> ClearedCount(t.progressRef, t.progTimers) + 1,
     cardDue     |-> TicksPerDwell(tick),
     progDue     |-> 1]

Timers ==
    [intervalRef |-> intervalRef, progressRef |-> progressRef,
     cardTimers |-> cardTimers, progTimers |-> progTimers,
     cardDue |-> cardDue, progDue |-> progDue]

\* mutant: the effect does not look at the number of cards
ShouldPlay_IgnoresLength(playing, n) == playing

\* the autoplay effect's condition
ShouldPlay(playing, n) == playing /\ n > 0

\* the autoplay effect after a re-render: the cleanup of the previous run
\* (stopAutoPlay), then startAutoPlay or stopAutoPlay
AutoplayEffect(t, playing, n, tick) ==
    IF ShouldPlay(playing, n)
    THEN StartAutoPlay(StopAutoPlay(t), tick)
    ELSE StopAutoPlay(StopAutoPlay(t))

\* mutant: stopAutoPlay leaves the progress where the handler left it
EffectProgress_StopKeeps(playing, n, prog) ==
    IF ShouldPlay(playing, n) THEN 0 ELSE prog

\* the progress after the effect has run: startAutoPlay and stopAutoPlay
\* both end in setProgress(0), which wins over the handler's own value
EffectProgress(playing, n, prog) == 0

SetTimers(t) ==
    /\ intervalRef' = t.intervalRef
    /\ progressRef' = t.progressRef
    /\ cardTimers' = t.cardTimers
    /\ progTimers' = t.progTimers
    /\ cardDue' = t.cardDue
    /\ progDue' = t.progDue

\* the dependency list [isAutoPlaying, currentCard, cardsWithCounts.length,
\* startAutoPlay]; startAutoPlay is memoised on [length, tickInterval]
EffectDeps(playing, card, n, tick) == <<playing, card, n, tick>>

\* Commit of a re-render with the new state values; t holds the timers as
\* the handler left them. The render throws, or the effect re-runs because
\* a dependency changed (the setProgress(0) of stop/start wins), or the
\* handler's own values stand.
Commit(view, card, playing, acts, tick, prog, t) ==
    IF RenderThrows(view, card, Len(acts))
    THEN /\ lifecycle' = "crashed"
         /\ SetTimers(StopAutoPlay(t))
         /\ UNCHANGED <<currentCard, isAutoPlaying, progress, currentView,
                        activities, tickInterval>>
    ELSE /\ lifecycle' = lifecycle
         /\ currentView' = view
         /\ currentCard' = card
         /\ isAutoPlaying' = playing
         /\ activities' = acts
         /\ tickInterval' = tick
         /\ IF EffectDeps(playing, card, Len(acts), tick)
                 # EffectDeps(isAutoPlaying, currentCard, NumCards, tickInterval)
            THEN /\ progress' = EffectProgress(playing, Len(acts), prog)
                 /\ SetTimers(AutoplayEffect(t, playing, Len(acts), tick))
            ELSE /\ progress' = prog
                 /\ SetTimers(t)

----------------------------------------------------------------------------
(* Initial state: the first render, before the mount effect has run *)

\* mutant: the component starts paused
InitialAutoPlaying_Paused == FALSE

\* useState(true)
InitialAutoPlaying == TRUE

Init ==
    /\ lifecycle = "mounted"
    /\ loaded = FALSE
    /\ currentCard = 0
    /\ isAutoPlaying = InitialAutoPlaying
    /\ progress = 0
    /\ touchStart = Null
    /\ touchEnd = Null
    /\ currentView = "main"
    /\ activities = <<>>
    /\ editingActivity = Null
    /\ tickInterval = DefaultTickInterval
    /\ intervalRef = "null"
    /\ progressRef = "null"
    /\ cardTimers = 0
    /\ progTimers = 0
    /\ cardDue = 0
    /\ progDue = 0
    /\ navStart = 0
    /\ navCount = 0
    /\ userProfile = Null
    /\ today = Today
    /\ calcIn = Null
    /\ calcOut = Null
    /\ savedProfile = Null
    /\ savedActivities = Null

\* which controls the rendered screen offers
MainShown == Screen = "main"

----------------------------------------------------------------------------
(* Actions *)

\* the mount effect: settings and activities are loaded, the activities
\* shuffled; then the re-render and the autoplay effect
Load ==
    /\ lifecycle = "mounted"
    /\ ~loaded
    /\ \E n \in 0..MaxLoad, tick \in TickChoices :
         \E acts \in Shuffles(n) :
            Commit(currentView, currentCard, isAutoPlaying, acts, tick,
                   progress, Timers)
    /\ loaded' = TRUE
    /\ userProfile' = Some(LoadedProfile)
    /\ UNCHANGED <<touchStart, touchEnd, editingActivity>>
    /\ UNCHANGED <<hist, today, calcVars, savedVars>>

\* mutant: nextCard also pauses
NextCardCall_Pauses ==
    /\ MainShown
    /\ Commit(currentView, NextCardIndex(currentCard, NumCards),
              FALSE, activities, tickInterval,
              IF NumCards > 0 THEN 0 ELSE progress, Timers)
    /\ UNCHANGED <<loaded, touchStart, touchEnd, editingActivity>>
    /\ UNCHANGED <<profileVars, calcVars, savedVars>>

NextCardCall ==
    /\ MainShown
    /\ Commit(currentView, NextCardIndex(currentCard, NumCards),
              isAutoPlaying, activities, tickInterval,
              IF NumCards > 0 THEN 0 ELSE progress, Timers)
    /\ UNCHANGED <<loaded, touchStart, touchEnd, editingActivity>>
    /\ UNCHANGED <<profileVars, calcVars, savedVars>>

NextCard == NextCardCall /\ UNCHANGED hist

PrevCard ==
    /\ MainShown
    /\ Commit(currentView, PrevCardIndex(currentCard, NumCards),
              isAutoPlaying, activities, tickInterval,
              IF NumCards > 0 THEN 0 ELSE progress, Timers)
    /\ UNCHANGED <<loaded, touchStart, touchEnd, editingActivity>>
    /\ UNCHANGED <<hist, profileVars, calcVars, savedVars>>

HandleTouchStart ==
    /\ MainShown
    /\ \E x \in Coords : touchStart' = Some(x)
    /\ touchEnd' = Null
    /\ UNCHANGED <<lifecycle, loaded, currentCard, isAutoPlaying, progress,
                   currentView, activities, editingActivity, tickInterval,
                   intervalRef, progressRef, cardTimers, progTimers,
                   cardDue, progDue>>
    /\ UNCHANGED <<hist, profileVars, calcVars, savedVars>>

HandleTouchMove ==
    /\ MainShown
    /\ touchStart # Null
    /\ \E x \in Coords : touchEnd' = Some(x)
    /\ UNCHANGED <<lifecycle, loaded, currentCard, isAutoPlaying, progress,
                   touchStart, currentView, activities, editingActivity,
                   tickInterval, intervalRef, progressRef, cardTimers,
                   progTimers, cardDue, progDue>>
    /\ UNCHANGED <<hist, profileVars, calcVars, savedVars>>

\* the card index and the progress handleTouchEnd asks for
TouchEndCard ==
    LET d == SwipeDecision(touchStart, touchEnd)
    IN  IF d = "next" THEN NextCardIndex(currentCard, NumCards)
        ELSE IF d = "prev" THEN PrevCardIndex(currentCard, NumCards)
        ELSE currentCard

\* mutant: a swipe leaves the progress where it was
TouchEndProgress_KeepsProgress == progress

TouchEndProgress ==
    IF SwipeDecision(touchStart, touchEnd) # "none" /\ NumCards > 0
    THEN 0 ELSE progress

HandleTouchEnd ==
    /\ MainShown
    /\ touchStart # Null
    /\ Commit(currentView, TouchEndCard, isAutoPlaying, activities,
              tickInterval, TouchEndProgress, Timers)
    /\ UNCHANGED <<loaded, touchStart, touchEnd, editingActivity>>
    /\ UNCHANGED <<hist, profileVars, calcVars, savedVars>>

\* tap on the card
HandleCardClick ==
    /\ MainShown
    /\ Commit(currentView, currentCard, ToggledPlaying(isAutoPlaying),
              activities, tickInterval, progress, Timers)
    /\ UNCHANGED <<loaded, touchStart, touchEnd, editingActivity>>
    /\ UNCHANGED <<hist, profileVars, calcVars, savedVars>>

\* the Pause / Play button
PlayPauseClick ==
    /\ MainShown
    /\ Commit(currentView, currentCard, ToggledPlaying(isAutoPlaying),
              activities, tickInterval, progress, Timers)
    /\ UNCHANGED <<loaded, touchStart, touchEnd, editingActivity>>
    /\ UNCHANGED <<hist, profileVars, calcVars, savedVars>>

\* mutant: opening the settings leaves autoplay as it is
HandleSettingsClick_KeepsPlaying ==
    /\ MainShown
    /\ Commit("settings", currentCard, isAutoPlaying, activities,
              tickInterval, progress, Timers)
    /\ UNCHANGED <<loaded, touchStart, touchEnd, editingActivity>>
    /\ UNCHANGED <<hist, profileVars, calcVars, savedVars>>

\* setCurrentView('settings'); setIsAutoPlaying(false)
HandleSettingsClick ==
    /\ MainShown
    /\ Commit("settings", currentCard, FALSE, activities, tickInterval,
              progress, Timers)
    /\ UNCHANGED <<loaded, touchStart, touchEnd, editingActivity>>
    /\ UNCHANGED <<hist, profileVars, calcVars, savedVars>>

\* mutant: going back restores the play state the settings were opened in
HandleBackToMain_KeepsPaused ==
    /\ Screen = "settings"
    /\ Commit("main", currentCard, isAutoPlaying, activities, tickInterval,
              progress, Timers)
    /\ UNCHANGED <<loaded, touchStart, touchEnd, editingActivity>>
    /\ UNCHANGED <<hist, profileVars, calcVars, savedVars>>

\* setCurrentView('main'); setIsAutoPlaying(true)
HandleBackToMain ==
    /\ Screen = "settings"
    /\ Commit("main", currentCard, TRUE, activities, tickInterval,
              progress, Timers)
    /\ UNCHANGED <<loaded, touchStart, touchEnd, editingActivity>>
    /\ UNCHANGED <<hist, profileVars, calcVars, savedVars>>

\* setCurrentView('lifespan') / ('activities') of the settings screen and
\* setCurrentView('settings') of the two sub-screens
SetCurrentView ==
    /\ \E v \in {"settings", "lifespan", "activities"} :
          /\ v # currentView
          /\ IF v = "settings" THEN Screen \in {"lifespan", "activities"}
                               ELSE Screen = "settings"
          /\ Commit(v, currentCard, isAutoPlaying, activities, tickInterval,
                    progress, Timers)
    /\ UNCHANGED <<loaded, touchStart, touchEnd, editingActivity>>
    /\ UNCHANGED <<hist, profileVars, calcVars, savedVars>>

HandleActivityEdit ==
    /\ Screen = "activities"
    /\ \E i \in 1..NumCards : editingActivity' = Some(activities[i])
    /\ UNCHANGED <<lifecycle, loaded, currentCard, isAutoPlaying, progress,
                   touchStart, touchEnd, currentView, activities,
                   tickInterval, intervalRef, progressRef, cardTimers,
                   progTimers, cardDue, progDue>>
    /\ UNCHANGED <<hist, profileVars, calcVars, savedVars>>

\* activities.map(act => act.id === updatedActivity.id ? updatedActivity : act)
HandleActivitySave ==
    /\ Screen = "modal"
    /\ Commit(currentView, currentCard, isAutoPlaying,
              [i \in 1..NumCards |->
                  IF activities[i] = editingActivity[1]
                  THEN editingActivity[1] ELSE activities[i]],
              tickInterval, progress, Timers)
    /\ savedActivities' =
          Persisted([i \in 1..NumCards |->
                        IF activities[i] = editingActivity[1]
                        THEN editingActivity[1] ELSE activities[i]],
                    savedActivities)
    /\ editingActivity' = Null
    /\ UNCHANGED <<loaded, touchStart, touchEnd>>
    /\ UNCHANGED <<hist, profileVars, calcVars, savedProfile>>

\* mutant: cancelling also takes the edited activity out of the list
EditCancel_RemovesActivity ==
    /\ Screen = "modal"
    /\ Commit(currentView, currentCard, isAutoPlaying,
              FilterOut(activities, editingActivity[1]), tickInterval,
              progress, Timers)
    /\ editingActivity' = Null
    /\ UNCHANGED <<loaded, touchStart, touchEnd>>
    /\ UNCHANGED <<hist, profileVars, calcVars, savedVars>>

\* onCancel of the edit modal
EditCancel ==
    /\ Screen = "modal"
    /\ editingActivity' = Null
    /\ UNCHANGED <<lifecycle, loaded, currentCard, isAutoPlaying, progress,
                   touchStart, touchEnd, currentView, activities,
                   tickInterval, intervalRef, progressRef, cardTimers,
                   progTimers, cardDue, progDue>>
    /\ UNCHANGED <<hist, profileVars, calcVars, savedVars>>

HandleActivityDelete ==
    /\ Screen = "activities"
    /\ \E i \in 1..NumCards :
          /\ Commit(currentView, currentCard, isAutoPlaying,
                    FilterOut(activities, activities[i]), tickInterval,
                    progress, Timers)
          /\ savedActivities' =
                Persisted(FilterOut(activities, activities[i]),
                          savedActivities)
    /\ UNCHANGED <<loaded, touchStart, touchEnd, editingActivity>>
    /\ UNCHANGED <<hist, profileVars, calcVars, savedProfile>>

HandleAddActivity ==
    /\ Screen = "activities"
    /\ NumCards < MaxActivities
    /\ LET id == NewId(activities)
       IN  /\ Commit(currentView, currentCard, isAutoPlaying,
                     Append(activities, id), tickInterval, progress, Timers)
           /\ savedActivities' =
                 Persisted(Append(activities, id), savedActivities)
           /\ editingActivity' = Some(id)
    /\ UNCHANGED <<loaded, touchStart, touchEnd>>
    /\ UNCHANGED <<hist, profileVars, calcVars, savedProfile>>

\* 50 ms pass while the intervals are armed and none of them is due
Elapse ==
    /\ cardTimers > 0 \/ progTimers > 0
    /\ cardTimers > 0 => cardDue > 0
    /\ progTimers > 0 => progDue > 0
    /\ cardDue' = IF cardTimers > 0 THEN cardDue - 1 ELSE cardDue
    /\ progDue' = IF progTimers > 0 THEN progDue - 1 ELSE progDue
    /\ UNCHANGED <<lifecycle, loaded, currentCard, isAutoPlaying, progress,
                   touchStart, touchEnd, currentView, activities,
                   editingActivity, tickInterval, intervalRef, progressRef,
                   cardTimers, progTimers>>
    /\ UNCHANGED <<hist, profileVars, calcVars, savedVars>>

\* callback of the progress interval
ProgressFire ==
    /\ progTimers > 0
    /\ progDue = 0
    /\ Commit(currentView, currentCard, isAutoPlaying, activities,
              tickInterval, ProgressStep(progress),
              [Timers EXCEPT !.progDue = 1])
    /\ UNCHANGED <<loaded, touchStart, touchEnd, editingActivity>>
    /\ UNCHANGED <<hist, profileVars, calcVars, savedVars>>

\* mutant: the card interval stops at the last card instead of wrapping
CardFire_NoWrap ==
    /\ cardTimers > 0
    /\ cardDue = 0
    /\ Commit(currentView, NextCardIndex_NoWrap(currentCard, NumCards),
              isAutoPlaying, activities, tickInterval, 0,
              [Timers EXCEPT !.cardDue = TicksPerDwell(tickInterval)])
    /\ UNCHANGED <<loaded, touchStart, touchEnd, editingActivity>>
    /\ UNCHANGED <<hist, profileVars, calcVars, savedVars>>

\* callback of the card-rotation interval
CardFire ==
    /\ cardTimers > 0
    /\ cardDue = 0
    /\ Commit(currentView, (currentCard + 1) % NumCards, isAutoPlaying,
              activities, tickInterval, 0,
              [Timers EXCEPT !.cardDue = TicksPerDwell(tickInterval)])
    /\ UNCHANGED <<loaded, touchStart, touchEnd, editingActivity>>
    /\ UNCHANGED <<hist, profileVars, calcVars, savedVars>>

\* the component is torn down: the effect's cleanup runs and the state goes
Unmount ==
    /\ lifecycle = "mounted"
    /\ lifecycle' = "unmounted"
    /\ SetTimers([StopAutoPlay(Timers) EXCEPT !.intervalRef = "null",
                                              !.progressRef = "null"])
    /\ loaded' = FALSE
    /\ currentCard' = 0
    /\ isAutoPlaying' = InitialAutoPlaying
    /\ progress' = 0
    /\ touchStart' = Null
    /\ touchEnd' = Null
    /\ currentView' = "main"
    /\ activities' = <<>>
    /\ editingActivity' = Null
    /\ tickInterval' = DefaultTickInterval
    /\ userProfile' = Null
    /\ savedProfile' = Null
    /\ savedActivities' = Null
    /\ UNCHANGED <<hist, today, calcVars>>

Next ==
    \/ Load
    \/ NextCard
    \/ PrevCard
    \/ HandleTouchStart
    \/ HandleTouchMove
    \/ HandleTouchEnd
    \/ HandleCardClick
    \/ PlayPauseClick
    \/ HandleSettingsClick
    \/ HandleBackToMain
    \/ SetCurrentView
    \/ HandleActivityEdit
    \/ HandleActivitySave
    \/ EditCancel
    \/ HandleActivityDelete
    \/ HandleAddActivity
    \/ Elapse
    \/ ProgressFire
    \/ CardFire
    \/ Unmount

Spec == Init /\ [][Next]_vars

----------------------------------------------------------------------------
(* Runs of consecutive nextCard calls.  The specification starts in a state *)
(* the component is in after a load of n activities and some navigation,   *)
(* playing (intervals freshly armed) or paused, and only calls nextCard.   *)

\* the longest sequence the runs are explored on
MaxCycleLen == 6

InitCycle ==
    /\ lifecycle = "mounted"
    /\ loaded = TRUE
    /\ \E n \in 1..MaxCycleLen :
          /\ activities = [i \in 1..n |-> i]
          /\ currentCard \in 0..(n - 1)
    /\ isAutoPlaying \in BOOLEAN
    /\ progress = 0
    /\ touchStart = Null
    /\ touchEnd = Null
    /\ currentView = "main"
    /\ editingActivity = Null
    /\ tickInterval \in TickChoices
    /\ intervalRef = (IF isAutoPlaying THEN "live" ELSE "cleared")
    /\ progressRef = intervalRef
    /\ cardTimers = (IF isAutoPlaying THEN 1 ELSE 0)
    /\ progTimers = cardTimers
    /\ cardDue = (IF isAutoPlaying THEN TicksPerDwell(tickInterval) ELSE 0)
    /\ progDue = (IF isAutoPlaying THEN 1 ELSE 0)
    /\ navStart = currentCard
    /\ navCount = 0
    /\ userProfile = Some(LoadedProfile)
    /\ today = Today
    /\ calcIn = Null
    /\ calcOut = Null
    /\ savedProfile = Null
    /\ savedActivities = Null

CycleNextCard ==
    /\ navCount < NumCards
    /\ NextCardCall
    /\ navCount' = navCount + 1
    /\ navStart' = navStart

SpecCycle == InitCycle /\ [][CycleNextCard]_vars

----------------------------------------------------------------------------
(* Long dwells.  The specification starts in the state a load leaves with   *)
(* tick_interval_seconds of 5 s and more, where the progress interval      *)
(* reaches 100 within one dwell, and interleaves the two timer callbacks   *)
(* with taps and manual navigation.                                        *)

\* tick_interval_seconds ranges over 5..5 + MaxDwellExtra
MaxDwellExtra == 1
\* the longest sequence of the long-dwell runs
MaxDwellCards == 2

DwellChoices == DefaultTickInterval..(DefaultTickInterval + MaxDwellExtra)

InitDwell ==
    /\ lifecycle = "mounted"
    /\ loaded = TRUE
    /\ \E n \in 1..MaxDwellCards : activities = [i \in 1..n |-> i]
    /\ currentCard = 0
    /\ isAutoPlaying = InitialAutoPlaying
    /\ progress = 0
    /\ touchStart = Null
    /\ touchEnd = Null
    /\ currentView = "main"
    /\ editingActivity = Null
    /\ tickInterval \in DwellChoices
    /\ intervalRef = "live"
    /\ progressRef = "live"
    /\ cardTimers = 1
    /\ progTimers = 1
    /\ cardDue = TicksPerDwell(tickInterval)
    /\ progDue = 1
    /\ navStart = 0
    /\ navCount = 0
    /\ userProfile = Some(LoadedProfile)
    /\ today = Today
    /\ calcIn = Null
    /\ calcOut = Null
    /\ savedProfile = Null
    /\ savedActivities = Null

NextDwell ==
    \/ Elapse
    \/ ProgressFire
    \/ CardFire
    \/ NextCard
    \/ PrevCard
    \/ HandleCardClick

SpecDwell == InitDwell /\ [][NextDwell]_vars

----------------------------------------------------------------------------
(* The lifespan screen.  The specification starts in the state the         *)
(* component is in after a load and the way to the lifespan screen         *)
(* (paused by handleSettingsClick), moves the two sliders and walks back   *)
(* to the main view.                                                       *)

\* handleLifespanChange(value), value in half-years
LifespanChange(value) ==
    /\ Screen = "lifespan"
    /\ userProfile # Null
    /\ LET updatedProfile == [userProfile[1] EXCEPT !.lifeHalfYears = value]
       IN  /\ userProfile' = Some(updatedProfile)
           /\ savedProfile' = Persisted(updatedProfile, savedProfile)
    /\ UNCHANGED <<componentVars, hist, today, calcVars, savedActivities>>

\* handleAgeChange(value)
AgeChange(value) ==
    /\ Screen = "lifespan"
    /\ userProfile # Null
    /\ LET updatedProfile == [userProfile[1] EXCEPT
                                 !.age = value,
                                 !.birth_year = today.year - value]
       IN  /\ userProfile' = Some(updatedProfile)
           /\ savedProfile' = Persisted(updatedProfile, savedProfile)
    /\ UNCHANGED <<componentVars, hist, today, calcVars, savedActivities>>

\* handleNameChange(value)
NameChange(value) ==
    /\ Screen = "lifespan"
    /\ userProfile # Null
    /\ LET updatedProfile == [userProfile[1] EXCEPT !.name = value]
       IN  /\ userProfile' = Some(updatedProfile)
           /\ savedProfile' = Persisted(updatedProfile, savedProfile)
    /\ UNCHANGED <<componentVars, hist, today, calcVars, savedActivities>>

HandleLifespanChange == \E value \in LifespanSlider : LifespanChange(value)

HandleAgeChange == \E value \in AgeSlider : AgeChange(value)

InitProfile ==
    /\ lifecycle = "mounted"
    /\ loaded = TRUE
    /\ activities = <<1>>
    /\ currentCard = 0
    /\ isAutoPlaying = FALSE
    /\ progress = 0
    /\ touchStart = Null
    /\ touchEnd = Null
    /\ currentView = "lifespan"
    /\ editingActivity = Null
    /\ tickInterval = DefaultTickInterval
    /\ intervalRef = "cleared"
    /\ progressRef = "cleared"
    /\ cardTimers = 0
    /\ progTimers = 0
    /\ cardDue = 0
    /\ progDue = 0
    /\ navStart = 0
    /\ navCount = 0
    /\ userProfile = Some(LoadedProfile)
    /\ today = Today
    /\ calcIn = Null
    /\ calcOut = Null
    /\ savedProfile = Null
    /\ savedActivities = Null

NextProfile ==
    \/ HandleLifespanChange
    \/ HandleAgeChange
    \/ SetCurrentView
    \/ HandleBackToMain
    \/ HandleSettingsClick

SpecProfile == InitProfile /\ [][NextProfile]_vars

----------------------------------------------------------------------------
(* The settings screens over time.  The specification starts where         *)
(* SpecProfile starts, moves the sliders to a few positions, types a name, *)
(* edits the activity list, and lets the calendar advance month by month.  *)

\* the calendar advances at most this many months beyond Today
MaxMonthsAhead == 12

AgeSample == {AgeSliderMin, DefaultAge + 3, AgeSliderMax}
LifespanSample == {2 * LifespanSliderMin, 2 * LifespanSliderMax}
NameSample == {"Ann"}

SettingsLifespanChange == \E value \in LifespanSample : LifespanChange(value)

SettingsAgeChange == \E value \in AgeSample : AgeChange(value)

HandleNameChange == \E value \in NameSample : NameChange(value)

MonthsAhead == (today.year - Today.year) * 12 + today.month - Today.month

\* a month ends: new Date() returns the next month from now on
CalendarAdvances ==
    /\ MonthsAhead < MaxMonthsAhead
    /\ today' = IF today.month = 12
                THEN [year |-> today.year + 1, month |-> 1]
                ELSE [today EXCEPT !.month = today.month + 1]
    /\ UNCHANGED <<componentVars, hist, userProfile, calcVars, savedVars>>

NextSettings ==
    \/ SettingsLifespanChange
    \/ SettingsAgeChange
    \/ HandleNameChange
    \/ SetCurrentView
    \/ HandleActivityEdit
    \/ HandleActivitySave
    \/ EditCancel
    \/ HandleActivityDelete
    \/ HandleAddActivity
    \/ CalendarAdvances

SpecSettings == InitProfile /\ [][NextSettings]_vars

----------------------------------------------------------------------------
(* The calculation utilities (src/unnamed/part_001).  Ages are whole years; *)
(* a life expectancy, and every age compared with one, is in half-years.   *)

\* JavaScript v || d on a number-or-null value
OrElse(v, d) == IF Truthy(v) THEN v[1] ELSE d

\* mutant: a period the table does not know counts for nothing
Multiplier_UnknownIsZero(period) ==
    CASE period = "day" -> 365
      [] period = "week" -> 52
      [] period = "month" -> 12
      [] period = "year" -> 1
      [] OTHER -> 0

\* the multipliers of convertFrequencyToYearly and of
\* convertToYearlyFrequency: multipliers[period] || 1
Multiplier(period) ==
    CASE period = "day" -> 365
      [] period = "week" -> 52
      [] period = "month" -> 12
      [] period = "year" -> 1
      [] OTHER -> 1

ConvertFrequencyToYearly(frequency) ==
    frequency.times * Multiplier(frequency.period)

\* mutant: the birthday month itself still counts as before the birthday
GetCurrentAge_BirthdayMonthLate(profile, now) ==
    LET age == now.year - profile.birth_year
    IN  IF now.month <= profile.birth_month THEN age - 1 ELSE age

\* getCurrentAge of the calculation utilities: the birth month counts
GetCurrentAge(profile, now) ==
    LET age == now.year - profile.birth_year
    IN  IF now.month < profile.birth_month THEN age - 1 ELSE age

\* getYearsRemaining of the calculation utilities, in half-years:
\* Math.max(0, profile.life_expectancy.years - getCurrentAge(profile))
GetYearsRemaining(profile, now) ==
    Max(0, profile.lifeHalfYears - 2 * GetCurrentAge(profile, now))

\* convertToYearlyFrequency of dataLoader.js
ConvertToYearlyFrequency(frequency) ==
    frequency.times * Multiplier(frequency.period)

\* getCurrentAge of dataLoader.js: the birth year alone
LoaderGetCurrentAge(profile, now) == now.year - profile.birth_year

\* getYearsRemaining of dataLoader.js, in half-years
LoaderGetYearsRemaining(profile, now) ==
    profile.lifeHalfYears - 2 * LoaderGetCurrentAge(profile, now)

\* activityEndAge, in half-years: flexible_end ? lifeExpectancy
\*                                             : end || lifeExpectancy
ActivityEndAge(activity, profile) ==
    IF activity.age_range.flexible_end THEN profile.lifeHalfYears
    ELSE IF Truthy(activity.age_range.end) THEN 2 * activity.age_range.end[1]
    ELSE profile.lifeHalfYears

\* mutant: an activity is always counted from the current age
RemainingStartAge_FromNow(activity, currentAge) == currentAge

\* activityStartAge of calculateRemainingOccurrences:
\* Math.max(activity.age_range.start || 0, currentAge)
RemainingStartAge(activity, currentAge) ==
    Max(OrElse(activity.age_range.start, 0), currentAge)

\* mutant: no test for an activity whose end age has passed
CalculateRemainingOccurrences_NoLapse(activity, profile, now) ==
    LET currentAge == GetCurrentAge(profile, now)
        activityEndAge == ActivityEndAge(activity, profile)
        activityStartAge == RemainingStartAge(activity, currentAge)
    IN  ((activityEndAge - 2 * activityStartAge)
            * ConvertFrequencyToYearly(activity.frequency)) \div 2

\* Math.floor(yearsRemaining * yearlyFrequency), the years being half the
\* half-years
CalculateRemainingOccurrences(activity, profile, now) ==
    LET currentAge == GetCurrentAge(profile, now)
        activityEndAge == ActivityEndAge(activity, profile)
        activityStartAge == RemainingStartAge(activity, currentAge)
    IN  IF 2 * currentAge >= activityEndAge THEN 0
        ELSE ((activityEndAge - 2 * activityStartAge)
                 * ConvertFrequencyToYearly(activity.frequency)) \div 2

\* mutant: the lifetime total counts from birth, whatever the start age
CalculateTotalOccurrences_FromBirth(activity, profile) ==
    LET activityEndAge == ActivityEndAge(activity, profile)
    IN  (Max(0, activityEndAge)
            * ConvertFrequencyToYearly(activity.frequency)) \div 2

CalculateTotalOccurrences(activity, profile) ==
    LET activityEndAge == ActivityEndAge(activity, profile)
        activityStartAge == OrElse(activity.age_range.start, 0)
        totalYears == Max(0, activityEndAge - 2 * activityStartAge)
    IN  (totalYears * ConvertFrequencyToYearly(activity.frequency)) \div 2

\* mutant: nothing to do counts as nothing done
CalculateCompletionPercentage_ZeroWhenEmpty(activity, profile, now) ==
    LET total == CalculateTotalOccurrences(activity, profile)
        remaining == CalculateRemainingOccurrences(activity, profile, now)
    IN  IF total = 0 THEN 0
        ELSE (200 * (total - remaining) + total) \div (2 * total)

\* Math.round((completed / total) * 100): halves round up
CalculateCompletionPercentage(activity, profile, now) ==
    LET total == CalculateTotalOccurrences(activity, profile)
        remaining == CalculateRemainingOccurrences(activity, profile, now)
    IN  IF total = 0 THEN 100
        ELSE (200 * (total - remaining) + total) \div (2 * total)

\* the arguments the calls are explored on
CalcDates == {[year |-> Today.year, month |-> m] : m \in {3, 9}}
CalcBirthYears == {Today.year - a : a \in {25, 57, 58, 60, 80}}
CalcBirthMonths == {6}
CalcLifeHalfYears == {120, DefaultLifeHalfYears, 160, 200}
CalcStartAges == {Null, Some(0), Some(16), Some(58), Some(70), Some(90)}
CalcEndAges == {Null, Some(60), Some(77), Some(80), Some(100)}
CalcTimes == {1, 2}
CalcPeriods == {"day", "week", "month", "year", "decade"}

CalcActivities ==
    [age_range : [start : CalcStartAges, end : CalcEndAges,
                  flexible_end : BOOLEAN],
     frequency : [times : CalcTimes, period : CalcPeriods]]

CalcProfiles ==
    [birth_year : CalcBirthYears, birth_month : CalcBirthMonths,
     lifeHalfYears : CalcLifeHalfYears]

InitCalc ==
    /\ lifecycle = "unmounted"
    /\ loaded = FALSE
    /\ currentCard = 0
    /\ isAutoPlaying = InitialAutoPlaying
    /\ progress = 0
    /\ touchStart = Null
    /\ touchEnd = Null
    /\ currentView = "main"
    /\ activities = <<>>
    /\ editingActivity = Null
    /\ tickInterval = DefaultTickInterval
    /\ intervalRef = "null"
    /\ progressRef = "null"
    /\ cardTimers = 0
    /\ progTimers = 0
    /\ cardDue = 0
    /\ progDue = 0
    /\ navStart = 0
    /\ navCount = 0
    /\ userProfile = Null
    /\ today \in CalcDates
    /\ calcIn \in [activity : CalcActivities, profile : CalcProfiles]
    /\ calcOut = Null
    /\ savedProfile = Null
    /\ savedActivities = Null

\* one call of each calculation on the same arguments
Calculate ==
    /\ calcIn # Null
    /\ calcOut = Null
    /\ calcOut' = Some(
          [remaining |-> CalculateRemainingOccurrences(
                             calcIn.activity, calcIn.profile, today),
           total |-> CalculateTotalOccurrences(calcIn.activity, calcIn.profile),
           completion |-> CalculateCompletionPercentage(
                              calcIn.activity, calcIn.profile, today),
           yearsRemaining |-> GetYearsRemaining(calcIn.profile, today),
           loaderYearsRemaining |->
               LoaderGetYearsRemaining(calcIn.profile, today),
           yearly |-> ConvertFrequencyToYearly(calcIn.activity.frequency),
           loaderYearly |->
               ConvertToYearlyFrequency(calcIn.activity.frequency)])
    /\ UNCHANGED <<componentVars, hist, profileVars, calcIn, savedVars>>

SpecCalc == InitCalc /\ [][Calculate]_vars

----------------------------------------------------------------------------
(* The two getCurrentAge / getYearsRemaining pairs, on every birth month   *)
(* and every month of the year.                                            *)

Months == 1..12
AgeDates == [year : {Today.year, Today.year + 1}, month : Months]
AgeProfiles ==
    [birth_year : {Today.year - a : a \in {0, 25, 57, 80}},
     birth_month : Months,
     lifeHalfYears : {DefaultLifeHalfYears}]

InitAge ==
    /\ lifecycle = "unmounted"
    /\ loaded = FALSE
    /\ currentCard = 0
    /\ isAutoPlaying = InitialAutoPlaying
    /\ progress = 0
    /\ touchStart = Null
    /\ touchEnd = Null
    /\ currentView = "main"
    /\ activities = <<>>
    /\ editingActivity = Null
    /\ tickInterval = DefaultTickInterval
    /\ intervalRef = "null"
    /\ progressRef = "null"
    /\ cardTimers = 0
    /\ progTimers = 0
    /\ cardDue = 0
    /\ progDue = 0
    /\ navStart = 0
    /\ navCount = 0
    /\ userProfile = Null
    /\ today \in AgeDates
    /\ calcIn \in [profile : AgeProfiles]
    /\ calcOut = Null
    /\ savedProfile = Null
    /\ savedActivities = Null

\* one call of each of the four functions on the same profile
CalculateAge ==
    /\ calcOut = Null
    /\ calcOut' = Some(
          [age |-> GetCurrentAge(calcIn.profile, today),
           yearsRemaining |-> GetYearsRemaining(calcIn.profile, today),
           loaderAge |-> LoaderGetCurrentAge(calcIn.profile, today),
           loaderYearsRemaining |->
               LoaderGetYearsRemaining(calcIn.profile, today)])
    /\ UNCHANGED <<componentVars, hist, profileVars, calcIn, savedVars>>

SpecAge == InitAge /\ [][CalculateAge]_vars

----------------------------------------------------------------------------
(* Claims *)

\* C1: whenever the card sequence is non-empty the focus index satisfies
\* 0 <= currentCard < number of cards.
C1_FocusInBounds ==
    (lifecycle = "mounted" /\ NumCards > 0)
        => (currentCard >= 0 /\ currentCard < NumCards)

\* C2: while autoplaying on a non-empty sequence, a manual nextCard or
\* prevCard resets progress to 0 and restarts the dwell: the card interval
\* is due a full dwell after the call.
C2_ManualAdvanceRestartsDwell ==
    [][((NextCard \/ PrevCard) /\ isAutoPlaying /\ NumCards > 0)
          => (/\ progress' = 0
              /\ cardDue' = TicksPerDwell(tickInterval)
              /\ progDue' = 1)]_vars

\* C3: once autoplay is paused or the component is unmounted, no callback of
\* the card interval or of the progress interval runs until autoplay is
\* started again: every step of a timer callback starts in a mounted,
\* autoplaying state.
C3_CancellationTotal ==
    [][(ProgressFire \/ CardFire)
          => (lifecycle = "mounted" /\ isAutoPlaying)]_vars

\* autoplay has run, the card has moved on, and autoplay is now paused
C3_Witness ==
    /\ lifecycle = "mounted"
    /\ currentView = "main"
    /\ ~isAutoPlaying
    /\ intervalRef = "cleared"
    /\ progressRef = "cleared"
    /\ currentCard > 0

\* C4: the card interval and the progress interval are both armed or both
\* cancelled, and they are armed exactly when the component is mounted,
\* isAutoPlaying is true and the card sequence is non-empty.
C4_TimersArmedIffPlaying ==
    /\ (cardTimers > 0) <=> (progTimers > 0)
    /\ (cardTimers > 0)
          <=> (lifecycle = "mounted" /\ isAutoPlaying /\ NumCards > 0)

\* both intervals are armed and the progress interval has ticked
C4_Witness ==
    /\ isAutoPlaying
    /\ cardTimers > 0
    /\ progTimers > 0
    /\ progress > 0

\* C5: at most one live card interval and at most one live progress
\* interval exist in every reachable state.
C5_NeverDoubleArmed == cardTimers <= 1 /\ progTimers <= 1

\* the intervals were re-armed: autoplay is on again after a pause in which
\* cards were added, and the focus has moved
C5_Witness ==
    /\ cardTimers = 1
    /\ progTimers = 1
    /\ currentCard > 0
    /\ \E i \in 1..NumCards : activities[i] > MaxLoad

\* C6: for every dwell duration the progress ratio has risen to 100 (one
\* period of the progress interval is allowed for the order of two callbacks
\* due together) when the card interval advances the card, and no progress
\* callback takes it back to 0 before that.
C6_ProgressSpansDwell ==
    [][/\ CardFire => progress >= ProgressFull - 1
       /\ ProgressFire => progress' > progress]_vars

\* C7: N consecutive nextCard calls on a sequence of N cards return the
\* focus index to the value it had before the first.
C7_CyclicSequencing == (navCount = NumCards) => (currentCard = navStart)

\* a full run on at least three cards that did not start at the first card
C7_Witness ==
    /\ navCount = NumCards
    /\ NumCards >= 3
    /\ navStart > 0
    /\ currentCard = navStart

\* C8: while the card sequence is empty no interval is armed, the loading
\* screen is what the component renders, nextCard, prevCard and a finished
\* swipe leave the focus index as it is, and no step changes it.
C8_EmptySequenceSafe ==
    /\ [](lifecycle = "mounted" /\ NumCards = 0
            => /\ cardTimers = 0
               /\ progTimers = 0
               /\ Screen = "loading"
               /\ NextCardIndex(currentCard, NumCards) = currentCard
               /\ PrevCardIndex(currentCard, NumCards) = currentCard
               /\ TouchEndCard = currentCard)
    /\ [][(NumCards = 0 /\ Len(activities') = 0 /\ lifecycle' = "mounted")
             => currentCard' = currentCard]_vars

\* every activity was deleted after the focus had moved off the first card
C8_Witness ==
    /\ lifecycle = "mounted"
    /\ loaded
    /\ NumCards = 0
    /\ currentCard > 0
    /\ intervalRef = "cleared"

\* C9 as stated: the load leaves the focus index at 0 and arms no timer.
C9_LoadEntersReady ==
    [][(~loaded /\ loaded')
          => (currentCard' = 0 /\ cardTimers' = 0 /\ progTimers' = 0)]_vars

\* C9 as amended: the load leaves the focus index at 0 and isAutoPlaying
\* true; with a non-empty set both intervals are armed by the load itself,
\* with a full dwell ahead, and with an empty set none is.
C9_LoadStartsAutoplay ==
    [][(~loaded /\ loaded')
          => /\ currentCard' = 0
             /\ progress' = 0
             /\ isAutoPlaying'
             /\ Len(activities') > 0
                   => /\ cardTimers' = 1
                      /\ progTimers' = 1
                      /\ cardDue' = TicksPerDwell(tickInterval')
             /\ Len(activities') = 0
                   => (cardTimers' = 0 /\ progTimers' = 0)]_vars

\* the state a load of a non-empty set leaves: armed, nothing else done
C9_Witness ==
    /\ loaded
    /\ NumCards > 0
    /\ currentCard = 0
    /\ isAutoPlaying
    /\ intervalRef = "live"
    /\ cardTimers = 1
    /\ cardDue = TicksPerDwell(tickInterval)
    /\ touchStart = Null

\* C10: a finished swipe with deltaX = end - start asks for nextCard when
\* deltaX < -50, for prevCard when deltaX > 50, and for nothing otherwise.
C10_SwipeByDisplacement ==
    (MainShown /\ touchStart # Null /\ touchEnd # Null)
        => LET deltaX == touchEnd[1] - touchStart[1]
           IN  SwipeDecision(touchStart, touchEnd)
                  = IF deltaX < -SwipeThreshold THEN "next"
                    ELSE IF deltaX > SwipeThreshold THEN "prev"
                    ELSE "none"

\* C11: a tap on the focused card toggles play/pause: from playing it
\* pauses and both timers are cancelled, from paused it plays and both
\* timers are armed; the focus index is left alone, and a second tap would
\* restore the play state the first one found.
C11_TapToggles ==
    [][HandleCardClick
          => /\ isAutoPlaying' = ~isAutoPlaying
             /\ currentCard' = currentCard
             /\ isAutoPlaying' => (cardTimers' = 1 /\ progTimers' = 1)
             /\ ~isAutoPlaying' => (cardTimers' = 0 /\ progTimers' = 0)
             /\ ToggledPlaying(isAutoPlaying') = isAutoPlaying]_vars

\* paused on the main view, which only a tap (or the Play/Pause button)
\* does: both timers are cancelled and the focus is still on the last card
C11_Witness ==
    /\ MainShown
    /\ ~isAutoPlaying
    /\ cardTimers = 0
    /\ progTimers = 0
    /\ NumCards > 1
    /\ currentCard = NumCards - 1

\* C12: every change of the focused card, by nextCard, prevCard, a swipe or
\* the card interval, leaves progress at 0: no step changes the focus index
\* without leaving progress 0, and each of the four operations on a
\* non-empty sequence leaves progress 0 (also on a one-card sequence, where
\* the index itself comes back unchanged).
C12_CardChangeResetsProgress ==
    /\ [][/\ (currentCard' # currentCard) => (progress' = 0)
          /\ (NumCards > 0 /\ (NextCard \/ PrevCard \/ CardFire))
                => (progress' = 0)]_vars
    /\ []((MainShown /\ touchStart # Null
              /\ SwipeDecision(touchStart, touchEnd) # "none")
            => TouchEndProgress = 0)

\* a swipe has moved the focus to the second card while autoplaying, and
\* the progress of the new card is 0
C12_Witness ==
    /\ MainShown
    /\ isAutoPlaying
    /\ SwipeDecision(touchStart, touchEnd) = "next"
    /\ currentCard = 1
    /\ progress = 0

\* C13: pausing resets progress to 0 and it stays 0 while paused: in every
\* reachable state where isAutoPlaying is false, progress = 0.
C13_PausedProgressZero == (~isAutoPlaying) => (progress = 0)

\* paused by the settings button with cards loaded: both intervals have
\* been cleared and the progress is 0
C13_Witness ==
    /\ lifecycle = "mounted"
    /\ NumCards > 0
    /\ currentView = "settings"
    /\ ~isAutoPlaying
    /\ progressRef = "cleared"
    /\ progTimers = 0
    /\ progress = 0

\* C14: the progress ratio handed to the progress bar is in 0..100 in every
\* reachable state, for every dwell duration and every interleaving of
\* progress ticks, card advances, pauses and manual navigation.
C14_ProgressInRange == progress \in 0..ProgressFull

\* a dwell longer than 100 progress periods: the progress stands at 100
\* with the card interval not yet due
C14_Witness ==
    /\ isAutoPlaying
    /\ tickInterval > DefaultTickInterval
    /\ progress = ProgressFull
    /\ cardDue > 0

\* C15: an advance does not change the play/pause state: nextCard, prevCard
\* and a finished swipe leave isAutoPlaying, the current view and the
\* activity list unchanged (and with them the other state values, the
\* edited activity and the touch coordinates, and whether the intervals are
\* armed); only currentCard and progress change.
C15_AdvanceKeepsPlayState ==
    [][(NextCard \/ PrevCard \/ HandleTouchEnd)
          => /\ UNCHANGED <<isAutoPlaying, currentView, activities,
                            editingActivity, touchStart, touchEnd,
                            tickInterval, lifecycle>>
             /\ cardTimers' = cardTimers
             /\ progTimers' = progTimers]_vars

\* paused on the second of two cards with a backward swipe recorded: the
\* advances made since the pause have left it paused
C15_Witness ==
    /\ MainShown
    /\ ~isAutoPlaying
    /\ NumCards = 2
    /\ currentCard = 1
    /\ SwipeDecision(touchStart, touchEnd) = "prev"
    /\ cardTimers = 0

\* the current age, the end age (in half-years), the start age and the
\* yearly rate of the call whose arguments calcIn holds
CalcAge == GetCurrentAge(calcIn.profile, today)
CalcEnd == ActivityEndAge(calcIn.activity, calcIn.profile)
CalcStart == OrElse(calcIn.activity.age_range.start, 0)
CalcRate == ConvertFrequencyToYearly(calcIn.activity.frequency)

\* C16: calculateRemainingOccurrences returns a non-negative integer for
\* every activity and profile, also when the start age is greater than the
\* end age or the life expectancy while the current age is below the end.
C16_RemainingNonNegative ==
    (calcOut # Null) => (calcOut[1].remaining \in Nat)

C20_CompletionInRange ==
    (calcOut # Null)
       => /\ calcOut[1].completion \in 0..100
          /\ (calcOut[1].total = 0) => (calcOut[1].completion = 100)

\* a start age beyond the end age under a fractional life expectancy: the
\* total is 0 and the completion 100
C20_Witness ==
    /\ calcOut # Null
    /\ calcIn.profile.lifeHalfYears % 2 = 1
    /\ 2 * CalcStart > CalcEnd
    /\ 2 * CalcAge < CalcEnd
    /\ calcOut[1].total = 0
    /\ calcOut[1].completion = 100

\* C17: when the life expectancy is at most the current age (which the age
\* slider 18..90 and the lifespan slider 60..100 reach), the years
\* remaining and the count of every card of the main view are 0; they are
\* never negative.
C17_CountsClampAtZero ==
    MainShown
       => /\ YearsRemaining >= 0
          /\ \A f \in CardFrequencies : CardCount(f) >= 0
          /\ (LifeExpectancy <= 2 * CurrentAge)
                => /\ YearsRemaining = 0
                   /\ \A f \in CardFrequencies : CardCount(f) = 0

\* C21: every getYearsRemaining the repository exports returns
\* max(0, lifeExpectancy - currentAge) and never a negative number, also
\* for a life expectancy below the current age.
C21_YearsRemainingClamped ==
    (calcOut # Null)
       => /\ calcOut[1].yearsRemaining
                = Max(0, calcIn.profile.lifeHalfYears - 2 * CalcAge)
          /\ calcOut[1].yearsRemaining >= 0
          /\ calcOut[1].loaderYearsRemaining >= 0

\* C25: the yearly rate of {times, period} is times * m(period) with m =
\* 365, 52, 12, 1 for day, week, month, year and m = 1 for every other
\* period, identically in convertToYearlyFrequency and
\* convertFrequencyToYearly.
C25_YearlyRate ==
    (calcOut # Null)
       => LET f == calcIn.activity.frequency
              m == IF f.period = "day" THEN 365
                   ELSE IF f.period = "week" THEN 52
                   ELSE IF f.period = "month" THEN 12
                   ELSE 1
          IN  /\ calcOut[1].yearly = f.times * m
              /\ calcOut[1].loaderYearly = f.times * m

\* a rate asked for with a period the table does not know
C25_Witness ==
    /\ calcOut # Null
    /\ calcIn.activity.frequency = [times |-> 2, period |-> "decade"]
    /\ calcOut[1].yearly = 2
    /\ calcOut[1].loaderYearly = 2

\* C22: the current age is asOfDate.year - birthYear, less 1 exactly when
\* asOfDate.month < birthMonth, for every birth year, every birth month
\* 1..12 and every current month 1..12.
C22_AgeByBirthMonth ==
    (calcOut # Null)
       => LET years == today.year - calcIn.profile.birth_year
          IN  /\ (today.month < calcIn.profile.birth_month)
                    => calcOut[1].age = years - 1
              /\ (today.month >= calcIn.profile.birth_month)
                    => calcOut[1].age = years

\* asked in the birthday month itself: the year already counts
C22_Witness ==
    /\ calcOut # Null
    /\ today.month = calcIn.profile.birth_month
    /\ today.month = 12
    /\ calcOut[1].age = 57

\* C23: the current age is never stale: in every reachable state, also
\* after handleAgeChange and after the calendar has advanced, the age the
\* card counts are computed from equals the age derived from the stored
\* birth year and birth month at the current date.
C23_AgeNeverStale ==
    (lifecycle = "mounted" /\ userProfile # Null)
       => CurrentAge = GetCurrentAge(userProfile[1], today)

\* C27: after any sequence of load, handleAddActivity, handleActivitySave
\* and handleActivityDelete no two cards have the same activity id.
C27_NoDuplicateIds ==
    \A i, j \in 1..NumCards : (i # j) => (activities[i] # activities[j])

\* two activities added one after the other, the defaults deleted
C27_Witness ==
    /\ lifecycle = "mounted"
    /\ NumCards = 2
    /\ activities[1] > MaxLoad
    /\ activities[2] > MaxLoad

\* C24: the cards are recomputed whenever the profile or the activity set
\* changes: after handleLifespanChange, handleAgeChange,
\* handleActivitySave, handleAddActivity or handleActivityDelete there is
\* exactly one card per activity, in the same order, and every count
\* comes from the life expectancy and the age the profile holds now.
C24_CardsRecomputed ==
    [][(\/ SettingsLifespanChange
        \/ SettingsAgeChange
        \/ HandleActivitySave
        \/ HandleAddActivity
        \/ HandleActivityDelete)
          => /\ CardIds' = activities'
             /\ \A f \in CardFrequencies :
                   CardCount(f)'
                      = (f * (userProfile'[1].lifeHalfYears
                                 - 2 * userProfile'[1].age)) \div 2
             /\ \A end \in CalcEndAges :
                   ActivityEndAge([age_range |-> [start |-> Null,
                                                  end |-> end,
                                                  flexible_end |-> TRUE]],
                                  userProfile'[1])
                      = userProfile'[1].lifeHalfYears]_vars

\* both sliders moved and an activity added: a yearly card counts 82
\* (100 - 18)
C24_Witness ==
    /\ lifecycle = "mounted"
    /\ userProfile # Null
    /\ userProfile[1].age = AgeSliderMin
    /\ userProfile[1].lifeHalfYears = 2 * LifespanSliderMax
    /\ NumCards = 2
    /\ CardIds = activities
    /\ CardCount(1) = 82

\* C29: the profile and the activity list are persisted after every
\* mutation: after handleLifespanChange, handleAgeChange and
\* handleNameChange the profile last handed to saveUserProfile is the new
\* in-memory profile, and after handleActivitySave, handleActivityDelete
\* and handleAddActivity the list last handed to saveUserActivities is the
\* new in-memory list.
C29_PersistedAfterMutation ==
    [][/\ (SettingsLifespanChange \/ SettingsAgeChange \/ HandleNameChange)
             => (savedProfile' = userProfile')
       /\ (HandleActivitySave \/ HandleActivityDelete \/ HandleAddActivity)
             => (savedActivities' = Some(activities'))]_vars

\* a name typed and the only activity deleted: both are what was saved
C29_Witness ==
    /\ userProfile # Null
    /\ userProfile[1].name = "Ann"
    /\ savedProfile = userProfile
    /\ NumCards = 0
    /\ savedActivities = Some(activities)

----------------------------------------------------------------------------
(* The frequency normalizers on the two shapes a frequency takes: the      *)
(* object {times, period} of the activity data and the single yearly       *)
(* number of the legacy format the component holds.                        *)

\* the state of the component while only a utility function is called
ComponentIdle ==
    /\ lifecycle = "unmounted"
    /\ loaded = FALSE
    /\ currentCard = 0
    /\ isAutoPlaying = InitialAutoPlaying
    /\ progress = 0
    /\ touchStart = Null
    /\ touchEnd = Null
    /\ currentView = "main"
    /\ activities = <<>>
    /\ editingActivity = Null
    /\ tickInterval = DefaultTickInterval
    /\ intervalRef = "null"
    /\ progressRef = "null"
    /\ cardTimers = 0
    /\ progTimers = 0
    /\ cardDue = 0
    /\ progDue = 0
    /\ navStart = 0
    /\ navCount = 0
    /\ userProfile = Null
    /\ savedProfile = Null
    /\ savedActivities = Null

\* a legacy frequency is a number, written [number |-> v]
FrequencyNumbers == {1, 12, 52, 365}
FrequencyObjects == [times : {1, 2, 12}, period : CalcPeriods]
FrequencyValues ==
    FrequencyObjects \cup {[number |-> v] : v \in FrequencyNumbers}
\* yearsRemaining of the component, in half-years
FrequencyYearsRemaining == {0, 43, 2 * LifespanSliderMax - 2 * AgeSliderMin}

IsFrequencyObject(frequency) == "times" \in DOMAIN frequency

\* convertFrequencyToYearly on any argument: frequency.times of a number
\* is undefined, and undefined * (multipliers[undefined] || 1) is NaN (Null)
ConvertFrequencyToYearlyOrNaN(frequency) ==
    IF IsFrequencyObject(frequency)
    THEN Some(ConvertFrequencyToYearly(frequency))
    ELSE Null

\* convertToYearlyFrequency on any argument, likewise
ConvertToYearlyFrequencyOrNaN(frequency) ==
    IF IsFrequencyObject(frequency)
    THEN Some(ConvertToYearlyFrequency(frequency))
    ELSE Null

\* count of cardsWithCounts: Math.floor(activity.frequency * yearsRemaining);
\* an object times a number is NaN (Null)
LegacyCount(frequency, yearsRemaining) ==
    IF IsFrequencyObject(frequency)
    THEN Null
    ELSE Some((frequency.number * yearsRemaining) \div 2)

InitFrequency ==
    /\ ComponentIdle
    /\ today = Today
    /\ calcIn \in [frequency : FrequencyValues,
                   yearsRemaining : FrequencyYearsRemaining]
    /\ calcOut = Null

\* one call of each normalizer, and of the card count, on the same frequency
NormalizeFrequency ==
    /\ calcOut = Null
    /\ calcOut' = Some(
          [yearly |-> ConvertFrequencyToYearlyOrNaN(calcIn.frequency),
           loaderYearly |-> ConvertToYearlyFrequencyOrNaN(calcIn.frequency),
           count |-> LegacyCount(calcIn.frequency, calcIn.yearsRemaining)])
    /\ UNCHANGED <<componentVars, hist, profileVars, calcIn, savedVars>>

SpecFrequency == InitFrequency /\ [][NormalizeFrequency]_vars

\* C26: the frequency normalizer accepts the legacy shorthand: given a
\* single yearly number v, convertFrequencyToYearly and
\* convertToYearlyFrequency treat it as {times: v, period: year} and
\* return the yearly rate v.
C26_LegacyShorthandAccepted ==
    (calcOut # Null /\ ~IsFrequencyObject(calcIn.frequency))
       => /\ calcOut[1].yearly = Some(calcIn.frequency.number)
          /\ calcOut[1].loaderYearly = Some(calcIn.frequency.number)

----------------------------------------------------------------------------
(* loadDefaultActivities on lists of default activities, each carrying a   *)
(* metadata object whose is_active is true, false or absent.               *)

MaxDefaultActivities == 4

\* metadata with is_active true, false and absent
MetadataValues ==
    {[is_active |-> TRUE], [is_active |-> FALSE], [user_created |-> FALSE]}

\* the lists of default-activities.json: the id tells the position
DefaultActivityLists ==
    UNION {[1..n -> MetadataValues] : n \in 0..MaxDefaultActivities}

DefaultActivitiesOf(metas) ==
    [i \in 1..Len(metas) |-> [id |-> i, metadata |-> metas[i]]]

\* activity.metadata.is_active !== false
IsActive(activity) ==
    ~(/\ "is_active" \in DOMAIN activity.metadata
      /\ activity.metadata.is_active = FALSE)

\* mutant: only an activity marked active is kept
IsMarkedActive(activity) ==
    /\ "is_active" \in DOMAIN activity.metadata
    /\ activity.metadata.is_active = TRUE

\* mutant: an activity with is_active absent is dropped
LoadDefaultActivities_OnlyMarked(allActivities) ==
    SelectSeq(allActivities, IsMarkedActive)

\* allActivities.filter(activity => activity.metadata.is_active !== false)
LoadDefaultActivities(allActivities) ==
    SelectSeq(allActivities, IsActive)

InitLoader ==
    /\ ComponentIdle
    /\ today = Today
    /\ calcIn \in [allActivities :
                     {DefaultActivitiesOf(m) : m \in DefaultActivityLists}]
    /\ calcOut = Null

\* one call of loadDefaultActivities
LoadDefaults ==
    /\ calcOut = Null
    /\ calcOut' = Some(LoadDefaultActivities(calcIn.allActivities))
    /\ UNCHANGED <<componentVars, hist, profileVars, calcIn, savedVars>>

SpecLoader == InitLoader /\ [][LoadDefaults]_vars

\* the positions of the activities whose is_active is not false
NotFalsePositions(all) ==
    {i \in 1..Len(all) :
        \/ "is_active" \notin DOMAIN all[i].metadata
        \/ all[i].metadata.is_active # FALSE}

\* C28: loadDefaultActivities returns exactly the activities whose
\* is_active is not false, in their original order; an activity whose
\* is_active is absent counts as active.
C28_InactiveExcluded ==
    calcOut # Null =>
       LET all == calcIn.allActivities
           kept == NotFalsePositions(all)
           result == calcOut[1]
       IN  /\ Len(result) = Cardinality(kept)
           /\ \A k \in kept :
                 result[Cardinality({i \in kept : i <= k})] = all[k]

\* an inactive activity ahead of one with is_active absent and one marked
\* active: the two are returned in that order
C28_Witness ==
    /\ calcOut # Null
    /\ Len(calcIn.allActivities) = 3
    /\ calcIn.allActivities[1].metadata = [is_active |-> FALSE]
    /\ calcIn.allActivities[2].metadata = [user_created |-> FALSE]
    /\ calcIn.allActivities[3].metadata = [is_active |-> TRUE]
    /\ Len(calcOut[1]) = 2
    /\ calcOut[1][1].id = 2
    /\ calcOut[1][2].id = 3

----------------------------------------------------------------------------
(* The ActivityCard dispatcher on activities of every type, with and       *)
(* without the other fields.                                               *)

\* activity.type: the three known values, three the switch does not know
CardTypes ==
    {"financial", "quote", "experiential", "social", "Financial", ""}
CardCategories == {"subscriptions", "health"}
CardOccurrences == {0, 480}

\* activities with a type, and activities with none
CardActivities ==
    [type : CardTypes, category : CardCategories, financial : BOOLEAN]
       \cup [category : CardCategories, financial : BOOLEAN]

\* mutant: a switch with no default renders nothing for an unknown type
ActivityCard_NoDefault(activity, remainingOccurrences) ==
    [variant |->
        IF "type" \notin DOMAIN activity THEN "none"
        ELSE CASE activity.type = "financial" -> "FinancialActivityCard"
               [] activity.type = "quote" -> "QuoteActivityCard"
               [] activity.type = "experiential" -> "ExperientialActivityCard"
               [] OTHER -> "none",
     activity |-> activity,
     occurrences |-> remainingOccurrences]

\* switch (activity.type) { case 'financial' ... case 'quote' ...
\*                          case 'experiential': default: ... }
ActivityCard(activity, remainingOccurrences) ==
    [variant |->
        IF "type" \notin DOMAIN activity THEN "ExperientialActivityCard"
        ELSE CASE activity.type = "financial" -> "FinancialActivityCard"
               [] activity.type = "quote" -> "QuoteActivityCard"
               [] OTHER -> "ExperientialActivityCard",
     activity |-> activity,
     occurrences |-> remainingOccurrences]

InitCard ==
    /\ ComponentIdle
    /\ today = Today
    /\ calcIn \in [activity : CardActivities,
                   remainingOccurrences : CardOccurrences]
    /\ calcOut = Null

\* one rendering of ActivityCard
RenderActivityCard ==
    /\ calcOut = Null
    /\ calcOut' = Some(ActivityCard(calcIn.activity,
                                    calcIn.remainingOccurrences))
    /\ UNCHANGED <<componentVars, hist, profileVars, calcIn, savedVars>>

SpecCard == InitCard /\ [][RenderActivityCard]_vars

\* C30: the formatter dispatches on activity.type alone, with three
\* variants: financial and quote select their own variant, and every other
\* value of type, an absent type included, selects the experiential
\* variant; the dispatch always yields one of the three.
C30_DispatchOnType ==
    calcOut # Null =>
       LET activity == calcIn.activity
           variant == calcOut[1].variant
           typed(t) == "type" \in DOMAIN activity /\ activity.type = t
       IN  /\ variant \in {"FinancialActivityCard", "QuoteActivityCard",
                           "ExperientialActivityCard"}
           /\ (variant = "FinancialActivityCard") <=> typed("financial")
           /\ (variant = "QuoteActivityCard") <=> typed("quote")
           /\ calcOut[1].activity = activity
           /\ calcOut[1].occurrences = calcIn.remainingOccurrences

\* an activity with no type, carrying financial data, rendered as an
\* experiential card
C30_Witness ==
    /\ calcOut # Null
    /\ "type" \notin DOMAIN calcIn.activity
    /\ calcIn.activity.financial
    /\ calcOut[1].variant = "ExperientialActivityCard"

----------------------------------------------------------------------------
\* C31: in every reachable state where the current view is not the main
\* view (settings, lifespan or activities), isAutoPlaying is false and
\* neither timer is armed, and no step taken inside the settings screens
\* changes the focus index.
C31_SettingsPauseAutoplay ==
    /\ []((lifecycle = "mounted" /\ currentView # "main")
            => (~isAutoPlaying /\ cardTimers = 0 /\ progTimers = 0))
    /\ [][(currentView # "main" /\ currentView' # "main")
             => currentCard' = currentCard]_vars

\* in the lifespan screen with the focus on the second card: autoplay had
\* run or the user had navigated before the settings were opened
C31_Witness ==
    /\ Screen = "lifespan"
    /\ NumCards = 2
    /\ currentCard = 1
    /\ ~isAutoPlaying
    /\ intervalRef = "cleared"
    /\ cardTimers = 0

\* C32: handleBackToMain always sets isAutoPlaying to true: back on the main
\* view autoplay is on, also when the user had paused it before opening the
\* settings.
\* The settings screen is only rendered with cards, and the main view
\* renders the focused card: with the focus inside the sequence both
\* intervals are armed with a full dwell ahead; with the focus left beyond
\* the end by a deletion the render of the main view throws instead.
C32_BackToMainPlays ==
    [][HandleBackToMain
          => IF currentCard < NumCards
             THEN /\ lifecycle' = "mounted"
                  /\ currentView' = "main"
                  /\ isAutoPlaying'
                  /\ cardTimers' = 1
                  /\ progTimers' = 1
                  /\ cardDue' = TicksPerDwell(tickInterval)
                  /\ currentCard' = currentCard
             ELSE lifecycle' = "crashed"]_vars

\* back on the main view and playing, after a visit to the activities
\* screen in which an activity was added
C32_Witness ==
    /\ MainShown
    /\ isAutoPlaying
    /\ intervalRef = "live"
    /\ cardTimers = 1
    /\ savedActivities # Null
    /\ \E i \in 1..NumCards : activities[i] > MaxLoad

\* C33: once the activity list is empty after the load (the last activity
\* was deleted, or none was loaded), the component renders only the loading
\* screen whatever the current view is: no add, edit, delete or navigation
\* control can be used, and the list stays empty for as long as the
\* component is mounted.
C33_EmptyListIsFinal ==
    /\ []((lifecycle = "mounted" /\ loaded /\ NumCards = 0)
            => /\ Screen = "loading"
               /\ ~ENABLED HandleAddActivity
               /\ ~ENABLED HandleActivityEdit
               /\ ~ENABLED HandleActivityDelete
               /\ ~ENABLED SetCurrentView
               /\ ~ENABLED HandleBackToMain
               /\ ~ENABLED HandleSettingsClick)
    /\ [][(loaded /\ NumCards = 0) => Len(activities') = 0]_vars

\* the last activity was deleted in the activities screen
C33_Witness ==
    /\ lifecycle = "mounted"
    /\ loaded
    /\ NumCards = 0
    /\ currentView = "activities"
    /\ savedActivities = Some(<<>>)

----------------------------------------------------------------------------
(* Autoplay left alone.  The specification starts in the state a load of   *)
(* 1..MaxAutoplayCards activities leaves and lets only time pass and the   *)
(* two interval callbacks run; an armed interval that is due does run.     *)

MaxAutoplayCards == 3
AutoplayTicks == TickChoices \cup {DefaultTickInterval}

InitAutoplay ==
    /\ lifecycle = "mounted"
    /\ loaded = TRUE
    /\ \E n \in 1..MaxAutoplayCards : activities = [i \in 1..n |-> i]
    /\ currentCard = 0
    /\ isAutoPlaying = InitialAutoPlaying
    /\ progress = 0
    /\ touchStart = Null
    /\ touchEnd = Null
    /\ currentView = "main"
    /\ editingActivity = Null
    /\ tickInterval \in AutoplayTicks
    /\ intervalRef = "live"
    /\ progressRef = "live"
    /\ cardTimers = 1
    /\ progTimers = 1
    /\ cardDue = TicksPerDwell(tickInterval)
    /\ progDue = 1
    /\ navStart = 0
    /\ navCount = 0
    /\ userProfile = Some(LoadedProfile)
    /\ today = Today
    /\ calcIn = Null
    /\ calcOut = Null
    /\ savedProfile = Null
    /\ savedActivities = Null

NextAutoplay ==
    \/ Elapse
    \/ ProgressFire
    \/ CardFire

SpecAutoplay ==
    /\ InitAutoplay
    /\ [][NextAutoplay]_vars
    /\ WF_vars(Elapse)
    /\ WF_vars(ProgressFire)
    /\ WF_vars(CardFire)

\* C34: while autoplaying on a non-empty sequence of N cards with no user
\* input and timers that run when due, each dwell expiry moves the focus
\* index by exactly +1 modulo N and leaves the card interval armed with a
\* full dwell ahead; the interval stays armed with at most one dwell to
\* go, and every card is focused again and again.
C34_AutoplayCycles ==
    /\ [][CardFire
             => /\ currentCard' = (currentCard + 1) % NumCards
                /\ cardTimers' = 1
                /\ progTimers' = 1
                /\ cardDue' = TicksPerDwell(tickInterval)
                /\ isAutoPlaying']_vars
    /\ [](/\ isAutoPlaying
          /\ cardTimers = 1
          /\ cardDue <= TicksPerDwell(tickInterval))
    /\ \A c \in 0..(MaxAutoplayCards - 1) :
          []<>(c < NumCards => currentCard = c)

\* the dwell of the last of three cards has run out: the next expiry wraps
C34_Witness ==
    /\ isAutoPlaying
    /\ NumCards = MaxAutoplayCards
    /\ currentCard = NumCards - 1
    /\ cardTimers = 1
    /\ cardDue = 0

\* C35: the swipe decision of handleTouchEnd depends only on the
\* displacement touchStart - touchEnd, not on the absolute coordinates:
\* every finished swipe whose displacement exceeds 50 asks for exactly one
\* advance (forward for a positive displacement, backward for a negative
\* one), also when it starts or ends at clientX = 0.
C35_SwipeIgnoresPosition ==
    (MainShown /\ touchStart # Null /\ touchEnd # Null)
        => LET distance == touchStart[1] - touchEnd[1]
           IN  /\ distance > SwipeThreshold
                     => SwipeDecision(touchStart, touchEnd) = "next"
               /\ distance < -SwipeThreshold
                     => SwipeDecision(touchStart, touchEnd) = "prev"

\* C36: for every activity whose start age is not above its end age, and
\* every profile, calculateRemainingOccurrences is at most
\* calculateTotalOccurrences, and the two are equal whenever the current
\* age is at or below the start age.
C36_RemainingAtMostTotal ==
    (calcOut # Null /\ 2 * CalcStart <= CalcEnd)
        => /\ calcOut[1].remaining <= calcOut[1].total
           /\ CalcAge <= CalcStart
                 => calcOut[1].remaining = calcOut[1].total

\* the activity starts at the very age the profile has now, with years to
\* go: everything is still ahead
C36_Witness ==
    /\ calcOut # Null
    /\ CalcAge = CalcStart
    /\ 2 * CalcStart < CalcEnd
    /\ calcOut[1].remaining = calcOut[1].total
    /\ calcOut[1].remaining > 0

\* C37: the two exported implementations agree: for every profile and
\* current date, getCurrentAge and getYearsRemaining of dataLoader return
\* the values getCurrentAge and getYearsRemaining of the calculation
\* utilities return.
C37_ImplementationsAgree ==
    calcOut # Null
        => /\ calcOut[1].loaderAge = calcOut[1].age
           /\ calcOut[1].loaderYearsRemaining = calcOut[1].yearsRemaining

\* C38: cancelling the edit dialog opened by handleAddActivity only clears
\* editingActivity: handleAddActivity has appended the new activity to the
\* list and saved the longer list, and the cancel leaves the in-memory list
\* and the saved list as they are, one card longer than before the add.
C38_CancelKeepsAddedActivity ==
    [][/\ HandleAddActivity
             => /\ Len(activities') = Len(activities) + 1
                /\ SubSeq(activities', 1, Len(activities)) = activities
                /\ editingActivity' = Some(activities'[Len(activities')])
                /\ savedActivities' = Some(activities')
       /\ EditCancel
             => /\ editingActivity' = Null
                /\ activities' = activities
                /\ savedActivities' = savedActivities
                /\ UNCHANGED <<currentView, currentCard, isAutoPlaying,
                               userProfile, savedProfile>>]_vars

\* back in the activities screen with the dialog closed: the added
\* activity is the second card and is in the saved list
C38_Witness ==
    /\ Screen = "activities"
    /\ editingActivity = Null
    /\ NumCards = 2
    /\ activities[2] > MaxLoad
    /\ savedActivities = Some(activities)

----------------------------------------------------------------------------
(* The calculation breakdown of the card's back side, on whole and half    *)
(* years remaining.                                                        *)

BreakdownTimes == {1, 2, 3}
\* yearsRemaining in half-years: 0, 21, 21.5, 43.5 and 82 years
BreakdownYearsRemaining == {0, 42, 43, 87, 164}

\* amount of calculateTimeRemaining: Math.floor(yearsRemaining * 365), * 52,
\* * 12, and Math.floor(yearsRemaining) for a year and any other period
TimeRemainingAmount(yearsRemaining, frequency) ==
    CASE frequency.period = "day" -> (yearsRemaining * 365) \div 2
      [] frequency.period = "week" -> (yearsRemaining * 52) \div 2
      [] frequency.period = "month" -> (yearsRemaining * 12) \div 2
      [] OTHER -> yearsRemaining \div 2

\* totalCount: Math.floor(convertToYearlyFrequency(frequency) * yearsRemaining)
BreakdownTotalCount(frequency, yearsRemaining) ==
    (ConvertToYearlyFrequency(frequency) * yearsRemaining) \div 2

InitBreakdown ==
    /\ ComponentIdle
    /\ today = Today
    /\ calcIn \in [frequency : [times : BreakdownTimes, period : CalcPeriods],
                   yearsRemaining : BreakdownYearsRemaining]
    /\ calcOut = Null

\* generateCalculationBreakdown: the numbers of
\* `${frequency.times} x ${timeRemaining.amount} = ${totalCount}`
GenerateCalculationBreakdown ==
    /\ calcOut = Null
    /\ calcOut' = Some(
          [times |-> calcIn.frequency.times,
           amount |-> TimeRemainingAmount(calcIn.yearsRemaining,
                                          calcIn.frequency),
           totalCount |-> BreakdownTotalCount(calcIn.frequency,
                                              calcIn.yearsRemaining)])
    /\ UNCHANGED <<componentVars, hist, profileVars, calcIn, savedVars>>

SpecBreakdown == InitBreakdown /\ [][GenerateCalculationBreakdown]_vars

\* C39: the equation generateCalculationBreakdown shows is arithmetically
\* true: for every frequency and every yearsRemaining, half years
\* included, times multiplied by the amount of calculateTimeRemaining
\* equals the totalCount printed after the equals sign.
C39_BreakdownEquationTrue ==
    calcOut # Null
        => calcOut[1].times * calcOut[1].amount = calcOut[1].totalCount

====
